---------------------------- MODULE Spec2Model ----------------------------
(***************************************************************************)
(* Conway's Game of Life on a Z-order (Morton) addressed grid: a model of  *)
(* src/main.cpp (GameField, Game::openFile, Game::saveFile,                *)
(* Game::simulationTick and the editing handlers of main).                 *)
(*                                                                         *)
(* Machine words are modelled as the set of their 1-bit positions, so a    *)
(* uint32_t is a subset of 0..31 and a size_t a subset of 0..63; & is     *)
(* intersection, | is union, ^ is symmetric difference.  The cell array    *)
(* is modelled sparsely: a function from the keys (words) whose cell is not  *)
(* Dead to the cell's code, next to the allocation length `len`.           *)
(***************************************************************************)
EXTENDS Integers, Sequences, FiniteSets, TLC

----------------------------------------------------------------------------
(* Bounds of the model *)

\* clicks never raise the population above this, and a tick starts only
\* from a population of at most this many Alive cells or from the
\* configuration a file has just loaded
MaxAlive == 3
\* sizes 0..MaxCtorSize are handed to the constructor in SpecCtor
MaxCtorSize == 130
\* the cursor steps taken from a position the cursor was set to, in SpecSteps
MaxSteps == 2

----------------------------------------------------------------------------
(* Machine words *)

\* uint32_t and size_t widths
WordBits == 32
SizeBits == 64

\* the word of a natural number below 2^31
RECURSIVE WordFrom(_, _)
WordFrom(v, i) ==
    IF v = 0 THEN {}
    ELSE (IF v % 2 = 1 THEN {i} ELSE {}) \cup WordFrom(v \div 2, i + 1)

WordOf(v) == WordFrom(v, 0)

\* the natural number of a word whose bits are all below 31
NatOf(w) ==
    LET sum[i \in 0 .. WordBits] ==
            IF i = 0 THEN 0
            ELSE sum[i - 1] + (IF (i - 1) \in w THEN 2^(i - 1) ELSE 0)
    IN  sum[WordBits - 1]

Xor(a, b) == (a \ b) \cup (b \ a)
Shl(a, s) == {i + s : i \in {j \in a : j + s < WordBits}}
Shr(a, s) == {i - s : i \in {j \in a : j >= s}}

\* the lowest bit of a word that is not 0
LowestBit(w) == CHOOSE i \in w : w \cap (0 .. (i - 1)) = {}

\* a + 1 in size_t arithmetic: the lowest 0 bit is set, the bits below cleared
Inc(w) ==
    LET free == (0 .. (SizeBits - 1)) \ w
    IN  IF free = {} THEN {}
        ELSE LET i == LowestBit(free) IN (w \ (0 .. i)) \cup {i}

\* a - 1 in size_t arithmetic: the lowest 1 bit is cleared, the bits below set
Dec(w) ==
    IF w = {} THEN 0 .. (SizeBits - 1)
    ELSE LET i == LowestBit(w) IN (w \ {i}) \cup (0 .. (i - 1))

\* a >= b, unsigned: no bit of b alone lies above every bit of a alone
Geq(a, b) ==
    LET onlyA == a \ b
        onlyB == b \ a
    IN  \/ onlyB = {}
        \/ \E i \in onlyA : \A j \in onlyB : i > j

\* a & b on small naturals (cell codes and masks, uint8_t)
RECURSIVE BitAnd(_, _)
BitAnd(a, b) ==
    IF a = 0 \/ b = 0 THEN 0
    ELSE (a % 2) * (b % 2) + 2 * BitAnd(a \div 2, b \div 2)

BitOr(a, b) == a + b - BitAnd(a, b)

----------------------------------------------------------------------------
(* Coordinate codec *)

delta_swap(a, mask, shift) ==
    LET b == Xor(Shl(a, shift), a) \cap mask
    IN  Xor(a, Xor(b, Shr(b, shift)))

\* the uint16_t a size_t argument converts to
Trunc16(v) == v % 65536

interleaveXY(x, y) ==
    LET r0 == Shl(WordOf(Trunc16(y)), 16) \cup WordOf(Trunc16(x))
        r1 == delta_swap(r0, 16 .. 23, 8)
        r2 == delta_swap(r1, (8 .. 11) \cup (24 .. 27), 4)
        r3 == delta_swap(r2, {4, 5, 12, 13, 20, 21, 28, 29}, 2)
        r4 == delta_swap(r3, {2, 6, 10, 14, 18, 22, 26, 30}, 1)
    IN  r4

----------------------------------------------------------------------------
(* Cell codes *)

Dead == 0
Alive == 1
Dying == 3
Birthing == 2
DeadVisited == 4

MASK_X == {i \in 0 .. (WordBits - 1) : i % 2 = 0}
MASK_Y == {i \in 0 .. (WordBits - 1) : i % 2 = 1}


----------------------------------------------------------------------------
(* GameField *)

\* the constructor's loop over the bits of its argument: <<n, size>> at its end
RECURSIVE CtorScan(_, _)
CtorScan(size, n) ==
    IF n = SizeBits THEN <<n, size>>
    ELSE IF size % 2 = 1 THEN <<n, size \div 2>>
    ELSE CtorScan(size \div 2, n + 1)

\* the constructor with n >= 12 for the size it does not support
CtorThrowsAt12(size) ==
    LET r == CtorScan(size, 0)
    IN  \/ r[1] = SizeBits \/ r[2] # 0
        \/ r[1] >= 12

\* the constructor throws std::invalid_argument
CtorThrows(size) ==
    LET r == CtorScan(size, 0)
    IN  \/ r[1] = SizeBits \/ r[2] # 0
        \/ r[1] > 12

NoCells == [k \in {} |-> Dead]

\* the object the constructor builds when it does not throw
GameField(size) ==
    LET n == CtorScan(size, 0)[1]
        sx == interleaveXY(size, 0)
    IN  [n |-> n,
         size_x |-> sx,
         size_y |-> {i + 1 : i \in sx},
         cells |-> NoCells,
         len |-> {i + 2 * n : i \in WordOf(1)},
         size |-> size,
         idx |-> {}]

\* the word idx indexes the allocated array
InArray(f, w) == ~Geq(w, f.len)

\* cells[k] for a key k (a word) below len
CellAt(f, k) == IF k \in DOMAIN f.cells THEN f.cells[k] ELSE Dead

\* the array after cells[k] = v
CellsSet(cells, k, v) ==
    IF v = Dead
    THEN [j \in DOMAIN cells \ {k} |-> cells[j]]
    ELSE [j \in DOMAIN cells \cup {k} |-> IF j = k THEN v ELSE cells[j]]

\* StepResult with x > size_x || y > size_y for the off-grid test
StepResultPastEdge(f, x, y, mask) ==
    LET idx == x \cup y
        off == \/ Geq(x, f.size_x) /\ x # f.size_x
               \/ Geq(y, f.size_y) /\ y # f.size_y
        bad == ~off /\ ~InArray(f, idx)
    IN  [idx |-> idx,
         off |-> off,
         bad |-> bad,
         ret |-> IF off THEN BitAnd(DeadVisited, mask)
                 ELSE IF bad THEN Dead
                 ELSE BitAnd(CellAt(f, idx), mask)]

\* what right, left, up and down do once x and y are computed: the cursor
\* moves, and the array is read only when the position is inside the grid.
\* bad: the array is read at an index that is not below len.
StepResult(f, x, y, mask) ==
    LET idx == x \cup y
        off == Geq(x, f.size_x) \/ Geq(y, f.size_y)
        bad == ~off /\ ~InArray(f, idx)
    IN  [idx |-> idx,
         off |-> off,
         bad |-> bad,
         ret |-> IF off THEN BitAnd(DeadVisited, mask)
                 ELSE IF bad THEN Dead
                 ELSE BitAnd(CellAt(f, idx), mask)]

\* right without the bits of y filled in before the + 1
rightUnfilled(f, mask) ==
    StepResult(f, Inc(f.idx \cap MASK_X) \cap MASK_X, f.idx \cap MASK_Y, mask)

right(f, mask) ==
    StepResult(f, Inc(f.idx \cup MASK_Y) \cap MASK_X, f.idx \cap MASK_Y, mask)

left(f, mask) ==
    StepResult(f, Dec(f.idx \cap MASK_X) \cap MASK_X, f.idx \cap MASK_Y, mask)

up(f, mask) ==
    StepResult(f, f.idx \cap MASK_X, Dec(f.idx \cap MASK_Y) \cap MASK_Y, mask)

down(f, mask) ==
    StepResult(f, f.idx \cap MASK_X, Inc(f.idx \cup MASK_X) \cap MASK_Y, mask)

Step(dir, f, mask) ==
    CASE dir = "up" -> up(f, mask)
      [] dir = "left" -> left(f, mask)
      [] dir = "down" -> down(f, mask)
      [] dir = "right" -> right(f, mask)

\* Moves with the last move repeating the first of the way back
MovesRepeat == <<"up", "left", "down", "down", "right", "right", "up", "left">>

\* the moves of countAliveNeighbors, and of the walk of simulationTick
Moves == <<"up", "left", "down", "down", "right", "right", "up", "up">>

\* countAliveNeighbors from its i-th move on: the count (an unsigned char),
\* the positions visited, whether a step read outside the array, and the
\* cursor on return, idx = old_idx
RECURSIVE CountFrom(_, _, _, _, _, _)
Counted(f, i, count, trail, bad, old_idx, s) ==
    CountFrom([f EXCEPT !.idx = s.idx], i + 1, (count + s.ret) % 256,
              Append(trail, s.idx), bad \/ s.bad, old_idx)

CountFrom(f, i, count, trail, bad, old_idx) ==
    IF i > Len(Moves)
    THEN [count |-> count, trail |-> trail, bad |-> bad, idx |-> old_idx]
    ELSE Counted(f, i, count, trail, bad, old_idx, Step(Moves[i], f, Alive))

\* countAliveNeighbors without idx = old_idx
countAliveNeighborsNoRestore(f) ==
    LET c == CountFrom(f, 1, 0, <<>>, FALSE, f.idx)
    IN  [c EXCEPT !.idx = c.trail[Len(c.trail)]]

\* countAliveNeighbors: the eight moves with the default mask
countAliveNeighbors(f) == CountFrom(f, 1, 0, <<>>, FALSE, f.idx)

\* the rule with alive_neighbors < 3 for the cell that dies of loneliness
RuleLonely(cell, alive_neighbors) ==
    IF cell = Alive /\ (alive_neighbors < 3 \/ alive_neighbors > 3) THEN Dying
    ELSE IF cell = Dead
         THEN (IF alive_neighbors = 3 THEN Birthing ELSE DeadVisited)
    ELSE cell

\* the rule writing the next state at once: Dead for Dying, Alive for Birthing
RuleInPlace(cell, alive_neighbors) ==
    IF cell = Alive /\ (alive_neighbors < 2 \/ alive_neighbors > 3) THEN Dead
    ELSE IF cell = Dead
         THEN (IF alive_neighbors = 3 THEN Alive ELSE DeadVisited)
    ELSE cell

\* the rule of updateCell on a cell and its count
Rule(cell, alive_neighbors) ==
    IF cell = Alive /\ (alive_neighbors < 2 \/ alive_neighbors > 3) THEN Dying
    ELSE IF cell = Dead
         THEN (IF alive_neighbors = 3 THEN Birthing ELSE DeadVisited)
    ELSE cell

\* updateCell with the cursor on f.idx: the field afterwards, the count it
\* used and whether it touched the array outside its length
Ruled(f, c, inb) ==
    [f |-> IF inb
           THEN [f EXCEPT !.idx = c.idx,
                          !.cells = CellsSet(f.cells, c.idx,
                                             Rule(CellAt(f, c.idx), c.count))]
           ELSE [f EXCEPT !.idx = c.idx],
     at |-> f.idx,
     count |-> c.count,
     trail |-> c.trail,
     bad |-> c.bad \/ ~inb]

Counting(f, c) == Ruled(f, c, InArray(f, c.idx))

updateCell(f) == Counting(f, countAliveNeighbors(f))


\* setCursor: the cursor moves only to a coordinate inside the grid
setCursor(f, x, y) ==
    IF x >= f.size \/ y >= f.size THEN f
    ELSE [f EXCEPT !.idx = interleaveXY(x, y)]

\* toggle, with the cursor inside the array
toggle(f) ==
    [f EXCEPT !.cells =
        CellsSet(f.cells, f.idx, IF CellAt(f, f.idx) = Dead THEN Alive ELSE Dead)]

clear(f) == [f EXCEPT !.cells = NoCells]

\* setAlive(idxs, len): an index that is not below size * size is skipped
RECURSIVE setAlive(_, _)
setAlive(f, idxs) ==
    IF idxs = <<>> THEN f
    ELSE LET g == IF Head(idxs) < f.size * f.size
                  THEN [f EXCEPT !.cells =
                            CellsSet(f.cells, WordOf(Head(idxs)), Alive)]
                  ELSE f
         IN  setAlive(g, Tail(idxs))

\* populateRandom: each cell is drawn Dead (0) or Alive (1); S is the set of
\* the keys that drew 1
populateRandom(f, S) == [f EXCEPT !.cells = [k \in S |-> Alive]]

\* the keys of the cells equal to v
KeysOf(f, v) == {k \in DOMAIN f.cells : f.cells[k] = v}

\* the words below limit, a natural number
Below(S, limit) == LET w == WordOf(limit) IN {k \in S : ~Geq(k, w)}

\* a set of naturals in ascending order
RECURSIVE Ascending(_)
Ascending(S) ==
    IF S = {} THEN <<>>
    ELSE LET m == CHOOSE a \in S : \A b \in S : a <= b
         IN  <<m>> \o Ascending(S \ {m})

----------------------------------------------------------------------------
(* Game *)

\* saveFile with its loop starting at i = 1
SnapshotFromOne(f) ==
    <<f.size>> \o
        Ascending({NatOf(k) : k \in Below(KeysOf(f, Alive), f.size * f.size)} \ {0})

\* the words saveFile writes: the size, then the keys of the Alive cells
Snapshot(f) ==
    <<f.size>> \o
        Ascending({NatOf(k) : k \in Below(KeysOf(f, Alive), f.size * f.size)})

\* openFile with field.clear() ahead of the resize
openFileClearsFirst(f, content) ==
    LET new_size == Head(content)
        resized == new_size # f.size
        rejected == resized /\ CtorThrows(new_size)
        g == IF resized /\ ~rejected THEN GameField(new_size) ELSE f
    IN  [rejected |-> rejected,
         f |-> IF rejected THEN clear(f) ELSE setAlive(clear(g), Tail(content))]

\* openFile on a file of at least one word.  A size that differs from the
\* grid's is handed to the constructor; when it throws, openFile returns and
\* the field is as it was, otherwise the new object is moved into the field.
openFile(f, content) ==
    LET new_size == Head(content)
        resized == new_size # f.size
        rejected == resized /\ CtorThrows(new_size)
        g == IF resized /\ ~rejected THEN GameField(new_size) ELSE f
    IN  [rejected |-> rejected,
         f |-> IF rejected THEN f ELSE setAlive(clear(g), Tail(content))]

\* the commit pass without its DeadVisited case
CommitCellKeepsVisited(c) ==
    IF c = Birthing THEN Alive
    ELSE IF c = Dying THEN Dead
    ELSE c

\* the commit pass of simulationTick
CommitCell(c) ==
    IF c = Birthing THEN Alive
    ELSE IF c = Dying \/ c = DeadVisited THEN Dead
    ELSE c

commitPass(f) ==
    LET scanned == Below(DOMAIN f.cells, f.size * f.size)
        keep == {k \in DOMAIN f.cells :
                    k \notin scanned \/ CommitCell(f.cells[k]) # Dead}
    IN  [f EXCEPT !.cells =
            [k \in keep |-> IF k \in scanned THEN CommitCell(f.cells[k])
                            ELSE f.cells[k]]]

----------------------------------------------------------------------------
(* The program as a state machine *)

VARIABLES
    field,   \* Game::field, a GameField
    pc,      \* "idle" between handlers, "evaluate" and "commit" inside simulationTick
    scan,    \* simulationTick's local idx in the evaluate pass
    wpos,    \* 0 at the head of the evaluate loop, else the next move of the walk
    file,    \* the words of the file saveFile wrote last
    last,    \* observer: the handler that ran last, the size it was given, and
             \* whether the constructor threw
    hist,    \* observer: the Alive keys at the start of the last ticks since an edit
    calls,   \* observer: key -> calls of updateCell on it in this tick
    cnt,     \* observer: the last call of updateCell: cursor before, count,
             \* positions visited, cursor after
    stats,   \* observer: array reads and off-grid reports of the current walk
    oob,     \* observer: the array was accessed at an index not below its length
    done,    \* observer: the Alive keys the evaluate pass has enumerated, in order
    saved    \* observer: the field when saveFile ran last

vars == <<field, pc, scan, wpos, file, last, hist, calls, cnt, stats, oob, done,
          saved>>

\* main constructs Game game(2048, window)
InitSize == 2048

\* the coordinates clicks and random populations address
Coords == 0 .. 2

\* the keys of the addressed corner of the grid
RegionKeys(f) ==
    {interleaveXY(x, y) : x \in {c \in Coords : c < f.size},
                          y \in {c \in Coords : c < f.size}}

\* external files: a size word, then index words (16 is no key of a grid of
\* size 4, 4194304 none of a grid of size 2048; 1, 2, 3, 6, 9 are the keys of
\* a cell at column 1 and row 1 and of the four cells that share a side
\* with it)
FileSizes == {1, 2, 3, 4, 2048, 8192}
Crowded == <<1, 2, 3, 6, 9>>
FileTails == {<<>>, <<16, 4194304, 15>>, Crowded}

Files == {<<sz>> \o l : sz \in FileSizes, l \in FileTails}

NoFile == <<>>
NoCalls == [k \in {} |-> 0]
NoCount == [at |-> {}, count |-> 0, trail |-> <<>>, idx |-> {}]
NoStats == [reads |-> 0, offs |-> 0, off |-> FALSE]

Did(op, arg, threw) == [op |-> op, arg |-> arg, threw |-> threw]

Init ==
    /\ field = GameField(InitSize)
    /\ pc = "idle"
    /\ scan = {}
    /\ wpos = 0
    /\ file = NoFile
    /\ last = Did("construct", InitSize, FALSE)
    /\ hist = <<>>
    /\ calls = NoCalls
    /\ cnt = NoCount
    /\ stats = NoStats
    /\ oob = FALSE
    /\ done = <<>>
    /\ saved = GameField(InitSize)

\* an editing handler forgets what the observers recorded of the last ticks
Forget ==
    /\ hist' = <<>>
    /\ calls' = NoCalls
    /\ cnt' = NoCount
    /\ stats' = NoStats
    /\ done' = <<>>

\* main, left mouse button: setCursor and toggle on a coordinate of the grid
Click(x, y) ==
    /\ pc = "idle"
    /\ x < field.size /\ y < field.size
    /\ LET f == toggle(setCursor(field, x, y))
       IN  /\ Cardinality(DOMAIN f.cells) <= MaxAlive
           /\ field' = f
    /\ last' = Did("edit", 0, FALSE)
    /\ Forget
    /\ UNCHANGED <<pc, scan, wpos, file, oob, saved>>

\* main, key C
Clear ==
    /\ pc = "idle"
    /\ field' = clear(field)
    /\ last' = Did("edit", 0, FALSE)
    /\ Forget
    /\ UNCHANGED <<pc, scan, wpos, file, oob, saved>>

\* main, key R
PopulateRandom(S) ==
    /\ pc = "idle"
    /\ field' = populateRandom(field, S)
    /\ last' = Did("edit", 0, FALSE)
    /\ Forget
    /\ UNCHANGED <<pc, scan, wpos, file, oob, saved>>

\* main, key O, on an external file
OpenFile(content) ==
    /\ pc = "idle"
    /\ LET r == openFile(field, content)
       IN  /\ field' = r.f
           /\ last' = Did("open", Head(content), r.rejected)
    /\ Forget
    /\ UNCHANGED <<pc, scan, wpos, file, oob, saved>>

\* main, key S
SaveFile ==
    /\ pc = "idle"
    /\ file' = Snapshot(field)
    /\ saved' = field
    /\ last' = Did("edit", 0, FALSE)
    /\ Forget
    /\ UNCHANGED <<field, pc, scan, wpos, oob>>

\* main, key O, on the file saveFile wrote
OpenSaved ==
    /\ pc = "idle"
    /\ file # NoFile
    /\ LET r == openFile(field, file)
       IN  /\ field' = r.f
           /\ last' = Did("restore",
                           [size |-> field.size, same |-> field.cells = saved.cells],
                           r.rejected)
    /\ Forget
    /\ UNCHANGED <<pc, scan, wpos, file, oob, saved>>

\* simulationTick's mask, Alive | DeadVisited
TickMask == BitOr(Alive, DeadVisited)

\* the last two entries of hist with the present Alive keys appended
Remember(h, S) == IF h = <<>> THEN <<S>> ELSE <<h[Len(h)], S>>

\* simulationTick is entered
TickStart ==
    /\ pc = "idle"
    /\ \/ Cardinality(DOMAIN field.cells) <= MaxAlive
       \/ last.op = "open" /\ ~last.threw
    /\ pc' = "evaluate"
    /\ scan' = {}
    /\ wpos' = 0
    /\ hist' = Remember(hist, KeysOf(field, Alive))
    /\ calls' = NoCalls
    /\ cnt' = NoCount
    /\ stats' = NoStats
    /\ done' = <<>>
    /\ last' = Did("tick", 0, FALSE)
    /\ UNCHANGED <<field, file, oob, saved>>

\* updateCell is called with the cursor of f: the observers record the call
Updated(k, u) ==
    /\ field' = u.f
    /\ cnt' = [at |-> u.at, count |-> u.count, trail |-> u.trail, idx |-> u.f.idx]
    /\ calls' = [j \in DOMAIN calls \cup {k} |->
                    IF j = k THEN (IF k \in DOMAIN calls THEN calls[k] + 1 ELSE 1)
                    ELSE calls[j]]
    /\ oob' = (oob \/ u.bad)

Update(f) == Updated(f.idx, updateCell(f))

\* the evaluate loop has reached key k, whose cell is Alive
Visit(k) ==
    /\ Update([field EXCEPT !.idx = k])
    /\ scan' = k
    /\ wpos' = 1
    /\ stats' = NoStats
    /\ done' = Append(done, k)
    /\ UNCHANGED <<pc, file, last, hist, saved>>

\* the Alive cells the evaluate loop has yet to reach
Pending ==
    {k \in Below(KeysOf(field, Alive), field.size * field.size) : Geq(k, scan)}

Least(S) == CHOOSE a \in S : \A b \in S : Geq(b, a)

\* the evaluate loop runs on to the next Alive cell and applies the rule to it
EvalCell ==
    /\ pc = "evaluate"
    /\ wpos = 0
    /\ Pending # {}
    /\ Visit(Least(Pending))

\* the evaluate loop runs to its end
EvalDone ==
    /\ pc = "evaluate"
    /\ wpos = 0
    /\ Pending = {}
    /\ pc' = "commit"
    /\ scan' = WordOf(field.size * field.size)
    /\ UNCHANGED <<field, wpos, file, last, hist, calls, cnt, stats, oob, done,
                   saved>>

\* one move of the walk round the Alive cell, and the rule on the neighbour
\* when the masked read is Dead
Walked(s) ==
    /\ IF s.ret = Dead
       THEN Update([field EXCEPT !.idx = s.idx])
       ELSE /\ field' = [field EXCEPT !.idx = s.idx]
            /\ oob' = (oob \/ s.bad)
            /\ UNCHANGED <<cnt, calls>>
    /\ stats' = [reads |-> stats.reads + (IF s.off THEN 0 ELSE 1),
                 offs |-> stats.offs + (IF s.off THEN 1 ELSE 0),
                 off |-> s.off]

EvalWalk ==
    /\ pc = "evaluate"
    /\ wpos \in 1 .. Len(Moves)
    /\ Walked(Step(Moves[wpos], field, TickMask))
    /\ wpos' = IF wpos = Len(Moves) THEN 0 ELSE wpos + 1
    /\ scan' = IF wpos = Len(Moves) THEN Inc(scan) ELSE scan
    /\ UNCHANGED <<pc, file, last, hist, done, saved>>

\* the commit pass; simulationTick returns
Commit ==
    /\ pc = "commit"
    /\ field' = commitPass(field)
    /\ pc' = "idle"
    /\ scan' = {}
    /\ UNCHANGED <<wpos, file, last, hist, calls, cnt, stats, oob, done, saved>>

\* the subsets of S of at most n elements
RECURSIVE SetsUpTo(_, _)
SetsUpTo(S, n) ==
    IF n = 0 THEN {{}}
    ELSE LET smaller == SetsUpTo(S, n - 1)
         IN  smaller \cup {T \cup {e} : T \in smaller, e \in S}

\* the outcomes of populateRandom the model draws: at most n keys draw 1
RandomSets(f, n) == SetsUpTo(RegionKeys(f), n)

Randomise(n) ==
    /\ pc = "idle"
    /\ \E S \in RandomSets(field, n) : PopulateRandom(S)

Next ==
    \/ \E x \in Coords, y \in Coords : Click(x, y)
    \/ Clear
    \/ Randomise(1)
    \/ \E c \in Files : OpenFile(c)
    \/ TickStart
    \/ EvalCell
    \/ EvalDone
    \/ EvalWalk
    \/ Commit

Spec == Init /\ [][Next]_vars

----------------------------------------------------------------------------
(* The evaluate pass in any enumeration order.  simulationTick enumerates   *)
(* the keys in ascending order (EvalCell); here the loop may reach the      *)
(* Alive cells in any order, and a tick follows an edit.                    *)

\* the Alive cells that have not been enumerated
PendingAny ==
    {k \in Below(KeysOf(field, Alive), field.size * field.size) :
        \A i \in 1 .. Len(done) : done[i] # k}

EvalCellAny ==
    /\ pc = "evaluate"
    /\ wpos = 0
    /\ \E k \in PendingAny : Visit(k)

EvalDoneAny ==
    /\ pc = "evaluate"
    /\ wpos = 0
    /\ PendingAny = {}
    /\ pc' = "commit"
    /\ scan' = WordOf(field.size * field.size)
    /\ UNCHANGED <<field, wpos, file, last, hist, calls, cnt, stats, oob, done,
                   saved>>

TickOnce == hist = <<>> /\ TickStart

\* the files loaded here: valid sizes, an empty grid or the crowded one
FilesInOrder == {<<sz>> \o l : sz \in {1, 2, 4, 2048}, l \in {<<>>, Crowded}}

NextAnyOrder ==
    \/ \E x \in Coords, y \in Coords : Click(x, y)
    \/ \E c \in FilesInOrder : OpenFile(c)
    \/ TickOnce
    \/ EvalCellAny
    \/ EvalDoneAny
    \/ EvalWalk
    \/ Commit

SpecAnyOrder == Init /\ [][NextAnyOrder]_vars

----------------------------------------------------------------------------
(* The constructor on its own: field = GameField(size) for a range of sizes *)

CtorSizes ==
    (0 .. MaxCtorSize)
        \cup {2^k : k \in 7 .. 30}
        \cup {2^k + 1 : k \in 7 .. 30}
        \cup {2^k - 1 : k \in 7 .. 30}
        \cup {3 * 2^k : k \in 7 .. 29}

\* a size is handed to the constructor; the object is moved into the field
\* when the constructor returns, and the field is as it was when it throws
Construct(size) ==
    /\ pc = "idle"
    /\ field' = IF CtorThrows(size) THEN field ELSE GameField(size)
    /\ last' = Did("construct", size, CtorThrows(size))
    /\ Forget
    /\ UNCHANGED <<pc, scan, wpos, file, oob, saved>>

NextCtor == \E size \in CtorSizes : Construct(size)

SpecCtor == Init /\ [][NextCtor]_vars

----------------------------------------------------------------------------
(* Saving and loading *)

NextSnapshot ==
    \/ Randomise(1)
    \/ Clear
    \/ \E c \in Files : OpenFile(c)
    \/ SaveFile
    \/ OpenSaved

SpecSnapshot == Init /\ [][NextSnapshot]_vars

----------------------------------------------------------------------------
(* The cursor steps on their own: a grid of any valid size is built once,   *)
(* the cursor is set to a coordinate of it, and right, left, up and down    *)
(* move it, at most MaxSteps times.  last.arg holds the keys the cursor has been *)
(* on and the steps taken.                                                  *)

StepSizes == {2^e : e \in 0 .. 12}

\* the coordinates the cursor is set to: the ends of every carry chain
PlaceCoords(N) ==
    {c \in {0} \cup {2^j : j \in 0 .. 11} \cup {2^j - 1 : j \in 1 .. 12} : c < N}

\* the first and the last column or row
EdgeCoords(N) == {0, N - 1}

\* the positions the cursor is set to: on one axis the ends of a carry
\* chain, on the other an edge of the grid
Places(N) ==
    (PlaceCoords(N) \X EdgeCoords(N)) \cup (EdgeCoords(N) \X PlaceCoords(N))

Dirs == {"up", "left", "down", "right"}

Place(N, x, y) ==
    /\ pc = "idle"
    /\ last.op = "construct"
    /\ field' = setCursor(GameField(N), x, y)
    /\ last' = Did("step", [keys |-> <<interleaveXY(x, y)>>, dirs |-> <<>>], FALSE)
    /\ Forget
    /\ UNCHANGED <<pc, scan, wpos, file, oob, saved>>

\* one of right(), left(), up(), down() with the default mask
CursorStep(dir) ==
    /\ pc = "idle"
    /\ last.op = "step"
    /\ Len(last.arg.dirs) < MaxSteps
    /\ field' = [field EXCEPT !.idx = Step(dir, field, Alive).idx]
    /\ last' = Did("step", [keys |-> Append(last.arg.keys, field'.idx),
                            dirs |-> Append(last.arg.dirs, dir)], FALSE)
    /\ UNCHANGED <<pc, scan, wpos, file, hist, calls, cnt, stats, oob, done, saved>>

NextSteps ==
    \/ \E N \in StepSizes : \E p \in Places(N) : Place(N, p[1], p[2])
    \/ \E dir \in Dirs : CursorStep(dir)

SpecSteps == Init /\ [][NextSteps]_vars

----------------------------------------------------------------------------
(* Vocabulary of the properties: coordinates, Moore neighbours and the      *)
(* Game of Life rule, stated on coordinates and independently of the        *)
(* cursor arithmetic above.                                                 *)

\* the column and the row of a key: its even and its odd bits
X(k) == NatOf({i \div 2 : i \in {j \in k : j % 2 = 0}})
Y(k) == NatOf({(i - 1) \div 2 : i \in {j \in k : j % 2 = 1}})

\* the key of column x and row y, both natural numbers
KeyAt(x, y) == {2 * i : i \in WordOf(x)} \cup {2 * i + 1 : i \in WordOf(y)}

\* the key lies inside the N x N grid
InGrid(k, N) == X(k) < N /\ Y(k) < N

\* the coordinates around <<x, y>>
Around(x, y) == (((x - 1) .. (x + 1)) \X ((y - 1) .. (y + 1))) \ {<<x, y>>}

\* the Moore neighbours of a key that lie inside the N x N grid
MooreOf(x, y, N) ==
    {KeyAt(p[1], p[2]) : p \in {q \in Around(x, y) : q[1] \in 0 .. (N - 1)
                                                    /\ q[2] \in 0 .. (N - 1)}}

Moore(k, N) == MooreOf(X(k), Y(k), N)

\* the eight positions around a key in uint16_t coordinates, where the
\* position before 0 is 65535
RingOf(x, y) ==
    {KeyAt((p[1] + 65536) % 65536, (p[2] + 65536) % 65536) : p \in Around(x, y)}

Ring(k) == RingOf(X(k), Y(k))

\* the standard next generation of the set S of alive keys of an N x N grid
LifeNext(S, N) ==
    {k \in S \cup UNION {Moore(a, N) : a \in S} :
        \/ k \in S /\ Cardinality(Moore(k, N) \cap S) \in {2, 3}
        \/ k \notin S /\ Cardinality(Moore(k, N) \cap S) = 3}

\* the keys whose cell has the low bit of its code set
LowBitKeys(f) == {k \in DOMAIN f.cells : f.cells[k] % 2 = 1}

\* the keys a sequence holds
Range(q) == {q[i] : i \in 1 .. Len(q)}

\* the three cells of a line with its middle on <<x, y>>
LineAt(x, y, across) ==
    IF across THEN {KeyAt(x - 1, y), KeyAt(x, y), KeyAt(x + 1, y)}
    ELSE {KeyAt(x, y - 1), KeyAt(x, y), KeyAt(x, y + 1)}

\* S is a straight line of three cells inside the N x N grid
IsLineAbout(S, x, y, N) ==
    \/ x \in 1 .. (N - 2) /\ y \in 0 .. (N - 1) /\ S = LineAt(x, y, TRUE)
    \/ x \in 0 .. (N - 1) /\ y \in 1 .. (N - 2) /\ S = LineAt(x, y, FALSE)

IsLine(S, N) == \E k \in S : IsLineAbout(S, X(k), Y(k), N)

\* S is such a line and the eight neighbours of its middle cell are in the grid
IsRoomyLineAbout(S, x, y, N) ==
    /\ x \in 1 .. (N - 2) /\ y \in 1 .. (N - 2)
    /\ S \in {LineAt(x, y, TRUE), LineAt(x, y, FALSE)}

IsRoomyLine(S, N) == \E k \in S : IsRoomyLineAbout(S, X(k), Y(k), N)

\* a corner of the N x N grid
IsCorner(k, N) == X(k) \in {0, N - 1} /\ Y(k) \in {0, N - 1}

----------------------------------------------------------------------------
(* Properties *)

\* C2: between ticks, that is whenever no simulationTick is running, every
\* cell is Dead or Alive: no cell holds Dying, Birthing or DeadVisited after
\* construction, an edit, a load or a completed tick.
C2_BetweenTicksDeadOrAlive ==
    pc = "idle" => \A k \in DOMAIN field.cells : field.cells[k] \in {Dead, Alive}

\* a tick that changed the set of Alive cells has completed, so cells were
\* Dying or Birthing inside it, and cells are Alive after it
C2_Witness ==
    /\ pc = "idle"
    /\ last.op = "tick"
    /\ field.cells # NoCells
    /\ KeysOf(field, Alive) # hist[Len(hist)]
    /\ \E k \in DOMAIN calls : k \notin DOMAIN field.cells /\ k \notin hist[Len(hist)]

\* C10: throughout the evaluate pass (and until the commit pass runs) the
\* cells whose code has its low bit set are exactly the cells that were
\* Alive when the tick started.
C10_LowBitIsStartOfGeneration ==
    pc \in {"evaluate", "commit"} => LowBitKeys(field) = hist[Len(hist)]

\* the evaluate pass has written all three tick-local values
C10_Witness ==
    /\ pc = "evaluate"
    /\ KeysOf(field, Dying) # {}
    /\ KeysOf(field, Birthing) # {}
    /\ KeysOf(field, DeadVisited) # {}

\* C5: the constructor throws exactly when its argument is no power of two
\* (0 included) or exceeds 4096; otherwise it builds size * size cells, all
\* Dead, with the cursor on key 0.
C5_ConstructorValidatesSize ==
    last.op = "construct" =>
        /\ last.threw <=> last.arg \notin {2^e : e \in 0 .. 12}
        /\ ~last.threw =>
               /\ field.size = last.arg
               /\ field.len = WordOf(last.arg * last.arg)
               /\ field.cells = NoCells
               /\ field.idx = {}

\* the largest valid size has been constructed
C5_Witness ==
    /\ last.op = "construct"
    /\ ~last.threw
    /\ last.arg = 4096
    /\ field.size = 4096

\* C6: a snapshot written by saveFile and loaded into a grid of the same
\* size, whatever that grid holds, gives the saved configuration again: the
\* same cells are Alive and every other cell is Dead.
C6_SnapshotRoundTrip ==
    (last.op = "restore" /\ last.arg.size = saved.size) =>
        /\ ~last.threw
        /\ field.size = saved.size
        /\ field.cells = saved.cells

\* a saved configuration of two cells has been loaded over a different one
C6_Witness ==
    /\ last.op = "restore"
    /\ last.arg.size = saved.size
    /\ ~last.arg.same
    /\ Cardinality(DOMAIN saved.cells) = 2
    /\ field.cells = saved.cells

\* C1: whatever the order in which the evaluate pass reaches the Alive
\* cells, a completed simulationTick leaves the standard Game of Life next
\* generation of the configuration it started from (outside the grid counts
\* as dead): Alive with 2 or 3 alive Moore neighbours, or Dead with exactly
\* 3, is Alive; every other cell is Dead.
C1_TickIsLifeStep ==
    (pc = "idle" /\ hist # <<>>) =>
        field.cells = [k \in LifeNext(hist[Len(hist)], field.size) |-> Alive]

\* a tick has completed that reached the Alive cells in another than the
\* ascending order and in which cells were born, survived and died, one of
\* them with more than 3 alive neighbours
C1_Witness ==
    /\ pc = "idle"
    /\ hist # <<>>
    /\ Len(done) >= 2
    /\ ~Geq(done[2], done[1])
    /\ KeysOf(field, Alive) \ hist[Len(hist)] # {}
    /\ hist[Len(hist)] \cap KeysOf(field, Alive) # {}
    /\ \E k \in hist[Len(hist)] \ KeysOf(field, Alive) :
           Cardinality(Moore(k, field.size) \cap hist[Len(hist)]) > 3

\* C3 (amended): during a tick no read or write of the cell array uses an
\* index that is not below N * N; a cursor step of the walk reports off-grid
\* exactly when it lands outside the grid; the rule is applied only with the
\* cursor inside the grid; and for a single Alive cell on a corner of a grid
\* of size N >= 2, exactly 3 of the 8 steps of the walk read the array and
\* the other 5 report off-grid.
C3_AccessesInsideArray ==
    /\ ~oob
    /\ \A k \in DOMAIN calls : InGrid(k, field.size) /\ ~Geq(k, WordOf(field.size * field.size))
    /\ (stats.reads + stats.offs > 0) =>
           (stats.off <=> ~InGrid(field.idx, field.size))
    /\ (/\ pc = "evaluate" /\ wpos = 0 /\ Len(done) = 1
        /\ hist[Len(hist)] = {done[1]}
        /\ IsCorner(done[1], field.size)
        /\ field.size >= 2)
       => (stats.reads = 3 /\ stats.offs = 5)

\* the walk round a single Alive cell on a corner of a grid of size 4 is over
C3_Witness ==
    /\ pc = "evaluate" /\ wpos = 0 /\ Len(done) = 1
    /\ hist[Len(hist)] = {done[1]}
    /\ IsCorner(done[1], field.size)
    /\ field.size = 4
    /\ stats.reads = 3 /\ stats.offs = 5

\* C3 as stated: the same, with the corner count claimed for every grid size
C3_CornerOnEveryGrid ==
    (/\ pc = "evaluate" /\ wpos = 0 /\ Len(done) = 1
     /\ hist[Len(hist)] = {done[1]}
     /\ IsCorner(done[1], field.size))
    => (~oob /\ stats.reads = 3 /\ stats.offs = 5)

\* C4: a load whose declared size differs from the grid's and fails the
\* constructor's validation is rejected, and the grid is exactly as it was:
\* size, cursor and every cell.
C4_RejectedLoadKeepsGrid ==
    [][(last'.op = "open" /\ last'.arg # field.size /\ CtorThrows(last'.arg))
           => (last'.threw /\ field' = field)]_vars

\* a load has been rejected on a grid that holds Alive cells and whose
\* cursor has moved
C4_Witness ==
    /\ last.op = "open"
    /\ last.threw
    /\ field.cells # NoCells
    /\ field.idx # {}

\* C7: countAliveNeighbors, called in the evaluate pass with the cursor on a
\* cell of the grid, visits the 8 positions around the cell once each and
\* never the cell, returns the number of the cell's Moore neighbours inside
\* the grid whose code has the low bit set (Alive or Dying), and leaves the
\* cursor on the cell.
C7_CountsMooreNeighbours ==
    (pc = "evaluate" /\ cnt.trail # <<>>) =>
        /\ InGrid(cnt.at, field.size)
        /\ Len(cnt.trail) = 8
        /\ Range(cnt.trail) = Ring(cnt.at)
        /\ cnt.at \notin Range(cnt.trail)
        /\ cnt.count = Cardinality(Moore(cnt.at, field.size) \cap LowBitKeys(field))
        /\ cnt.idx = cnt.at

\* a count of a cell on the edge of the grid that has a Dying and a Birthing
\* neighbour
C7_Witness ==
    /\ pc = "evaluate"
    /\ cnt.trail # <<>>
    /\ Moore(cnt.at, field.size) \cap KeysOf(field, Dying) # {}
    /\ Moore(cnt.at, field.size) \cap KeysOf(field, Birthing) # {}
    /\ Cardinality(Moore(cnt.at, field.size)) < 8
    /\ cnt.count >= 1

\* C8 (amended): a straight line of three Alive cells on an otherwise empty
\* grid, the eight neighbours of whose middle cell lie inside the grid,
\* differs from itself after one tick and is itself again after two.
C8_BlinkerPeriodTwo ==
    (pc = "idle" /\ Len(hist) = 2 /\ IsRoomyLine(hist[1], field.size)) =>
        /\ hist[2] # hist[1]
        /\ field.cells = [k \in hist[1] |-> Alive]

\* two ticks have run from such a line
C8_Witness ==
    /\ pc = "idle"
    /\ Len(hist) = 2
    /\ IsRoomyLine(hist[1], field.size)
    /\ KeysOf(field, Alive) = hist[1]

\* C8 as stated: the same for every line of three cells inside the grid
C8_BlinkerAnywhere ==
    (pc = "idle" /\ Len(hist) = 2 /\ IsLine(hist[1], field.size)) =>
        /\ hist[2] # hist[1]
        /\ field.cells = [k \in hist[1] |-> Alive]

\* C9: in a tick, updateCell is invoked at most once on a cell that was Dead
\* when the tick started.
C9_DeadCellRuledOnce ==
    \A k \in DOMAIN calls : k \notin hist[Len(hist)] => calls[k] = 1

\* the step that undoes a step
Opposite(dir) ==
    CASE dir = "up" -> "down"
      [] dir = "down" -> "up"
      [] dir = "left" -> "right"
      [] dir = "right" -> "left"

\* b is the key the codec gives the position one step from column x, row y,
\* when that position is inside the N x N grid
CodecStep(dir, x, y, b, N) ==
    /\ (dir = "right" /\ x + 1 < N) => b = interleaveXY(x + 1, y)
    /\ (dir = "left" /\ x >= 1) => b = interleaveXY(x - 1, y)
    /\ (dir = "down" /\ y + 1 < N) => b = interleaveXY(x, y + 1)
    /\ (dir = "up" /\ y >= 1) => b = interleaveXY(x, y - 1)

\* a step from key a to key b agrees with the codec and keeps the other axis
StepAgrees(dir, a, b, N) ==
    /\ a = interleaveXY(X(a), Y(a))
    /\ CodecStep(dir, X(a), Y(a), b, N)
    /\ dir \in {"left", "right"} => b \cap MASK_Y = a \cap MASK_Y
    /\ dir \in {"up", "down"} => b \cap MASK_X = a \cap MASK_X

\* C11: with the cursor on interleaveXY(x, y) inside a grid of any valid
\* size N, right, left, down and up leave it on the key the codec gives the
\* neighbouring position when that position is in the grid; a step changes
\* only the bits of the axis it moves along; and a step followed by its
\* opposite brings the cursor back to the key it started from, also when
\* the position in between is outside the grid.
C11_StepsAgreeWithCodec ==
    last.op = "step" =>
        /\ \A i \in 1 .. Len(last.arg.dirs) :
               InGrid(last.arg.keys[i], field.size) =>
                   StepAgrees(last.arg.dirs[i], last.arg.keys[i],
                              last.arg.keys[i + 1], field.size)
        /\ \A i \in 1 .. (Len(last.arg.dirs) - 1) :
               (/\ InGrid(last.arg.keys[i], field.size)
                /\ last.arg.dirs[i + 1] = Opposite(last.arg.dirs[i]))
               => last.arg.keys[i + 2] = last.arg.keys[i]

\* on the largest grid, the cursor has stepped right across a long carry and
\* up across the northern edge, and back
C11_Witness ==
    /\ last.op = "step"
    /\ field.size = 4096
    /\ last.arg.dirs = <<"up", "down">>
    /\ X(last.arg.keys[1]) = 2047 /\ Y(last.arg.keys[1]) = 0
    /\ ~InGrid(last.arg.keys[2], field.size)
    /\ field.idx = last.arg.keys[1]

============================================================================
